---- MODULE Spec2Model ----
(***************************************************************************)
(* ktk: the shard-topology consumer (package consumer).                    *)
(*                                                                         *)
(* The program side is translated from consumer/consumer.go: tail, the    *)
(* monitor goroutine, one shardConsumer goroutine per launched shard and   *)
(* the pure helpers listShards, withNoChildren, nextShards, maybeDouble.   *)
(* The stream backend (the kinesisClient interface) is the environment: a  *)
(* grow-only shard topology that is resharded by splits and merges, one    *)
(* append-only record sequence per shard, DescribeStream pages,            *)
(* GetShardIterator and GetRecords.                                        *)
(***************************************************************************)
EXTENDS Integers, Sequences, FiniteSets, TLC

\* ------------------------------------------------------------------ bounds
\* largest number of shards the stream ever has
MaxShards == 3
\* largest number of records written to the stream
MaxRecs == 2
\* number of rate-limit responses the backend gives in one run
MaxThrottles == 1
\* largest snapshot on which withNoChildren is tried exhaustively
MaxSnapshot == 2
\* a listing that never ends stops growing its local list at this length
MaxListed == 6
\* number of rate-limit responses in a row one reader gets
MaxConsecutive == 8
\* largest SendSize a producer is built with
MaxSize == 2
\* number of Puts that pass validation and Flushes in one run
MaxCalls == 2
\* number of PutRecords responses with failed entries in one run
MaxFailures == 2

\* ------------------------------------------------------- program constants
\* kinesis.ShardIteratorTypeLatest / kinesis.ShardIteratorTypeTrimHorizon
LATEST == "LATEST"
TRIM_HORIZON == "TRIM_HORIZON"
\* waitTime := 250 * time.Millisecond, in milliseconds
\* validate: the longest partition key, in bytes
MaxKeyLength == 256
BaseWaitTime == 250
\* maxWaitTime := 10 * time.Second, in milliseconds
MaxWaitTime == 10000

\* a nil *string: no parent, no iterator type
Nil == 0
\* a nil iterator (s.iterator == nil, resp.NextShardIterator == nil)
NilIterator == [shard |-> 0, pos |-> 0]

VARIABLES
    topology,    \* backend: the stream's shards, in creation order
    written,     \* backend: number of records written to each shard
    pageLimit,   \* backend: largest number of shards in one DescribeStream page
    throttles,   \* backend: rate-limit responses given so far
    tailPc,      \* tail(): "list", "launch", "returned" or "failed"
    tailShards,  \* tail(): the shards listed so far (local of listShards)
    leaves,      \* tail(): the value withNoChildren returned
    monPc,       \* monitor(): "off", "recv", "list" or "launch"
    monShard,    \* monitor(): completeShard
    monShards,   \* monitor(): the shards listed so far (local of listShards)
    readers,     \* the shardConsumer goroutines, in launch order
    processed,   \* per shard, the sequence numbers passed to the processor
    crashed,     \* a goroutine panicked: the process is gone
    p,             \* the Producer: SendSize, current, messages
    sendPc,        \* send(): "idle", "call" (about to PutRecords) or "await"
    sendMessages,  \* send(): the local messages, the entries still to submit
    lastCall,      \* the last Put or Flush, with the error it returned
    putRecords,    \* client: the PutRecords calls so far, input and outcome
    calls,         \* the Puts that passed validation and the Flushes so far
    failures,      \* client: responses with failed entries given so far
    waits,         \* send(): the sleeps, in ms, of the Awaits of this send
    buffered,      \* the BufferedProducer: SendSize, current and its slices
    bufReturned,   \* what its last Put or Flush returned, and the buffer it had
    bufPutRecords, \* its client: the PutRecords calls so far
    bufCalls       \* the number of its Puts and Flushes so far

consumerVars == <<topology, written, pageLimit, throttles, tailPc, tailShards,
                  leaves, monPc, monShard, monShards, readers, processed,
                  crashed>>

producerVars ==
    <<p, sendPc, sendMessages, lastCall, putRecords, calls, failures, waits>>

bufferedVars == <<buffered, bufReturned, bufPutRecords, bufCalls>>

vars == <<consumerVars, producerVars, bufferedVars>>

backendVars == <<topology, written, pageLimit, throttles>>
tailVars == <<tailPc, tailShards, leaves>>
monVars == <<monPc, monShard, monShards>>

ShardIds == 1..MaxShards

\* --------------------------------------------------------------- backend
\* kinesis.Shard: ShardId, ParentShardId, AdjacentParentShardId
Shard(id, parentOne, parentTwo) ==
    [ShardId |-> id, ParentShardId |-> parentOne,
     AdjacentParentShardId |-> parentTwo]

NumShards == Len(topology)

\* a shard is closed once a split or merge replaced it by children
Closed(id) ==
    \E j \in 1..NumShards :
        topology[j].ParentShardId = id \/ topology[j].AdjacentParentShardId = id

Open(id) == id \in 1..NumShards /\ ~Closed(id)

\* DescribeStream without ExclusiveStartShardId: the first page of the listing
DescribeStreamShards ==
    SubSeq(topology, 1, IF NumShards < pageLimit THEN NumShards ELSE pageLimit)

DescribeStreamHasMoreShards == NumShards > pageLimit

\* GetShardIterator: a cursor at the shard's end (LATEST) or start (TRIM_HORIZON)
GetShardIterator(shardId, iterType) ==
    [shard |-> shardId,
     pos |-> IF iterType = LATEST THEN written[shardId] ELSE 0]

\* records the backend can return for an iterator
Available(iterator) == written[iterator.shard] - iterator.pos

\* GetRecordsOutput.Records: the next k sequence numbers after the cursor
GetRecordsRecords(iterator, k) == [i \in 1..k |-> iterator.pos + i]

\* GetRecordsOutput.NextShardIterator: nil at the end of a closed shard
GetRecordsNextShardIterator(iterator, k) ==
    IF Closed(iterator.shard) /\ iterator.pos + k = written[iterator.shard]
    THEN NilIterator
    ELSE [shard |-> iterator.shard, pos |-> iterator.pos + k]

\* records written to the stream so far
RECURSIVE WrittenUpTo(_)
WrittenUpTo(id) == IF id = 0 THEN 0 ELSE written[id] + WrittenUpTo(id - 1)

\* the stream gets a record on an open shard
Write(id) ==
    /\ ~crashed
    /\ Open(id)
    /\ WrittenUpTo(MaxShards) < MaxRecs
    /\ written' = [written EXCEPT ![id] = @ + 1]
    /\ UNCHANGED <<topology, pageLimit, throttles, tailVars, monVars, readers,
                   processed, crashed>>
    /\ UNCHANGED <<producerVars, bufferedVars>>

\* resharding: an open shard is closed and replaced by two children
Split(id) ==
    /\ ~crashed
    /\ Open(id)
    /\ NumShards + 2 <= MaxShards
    /\ topology' = topology \o <<Shard(NumShards + 1, id, Nil),
                                 Shard(NumShards + 2, id, Nil)>>
    /\ UNCHANGED <<written, pageLimit, throttles, tailVars, monVars, readers,
                   processed, crashed>>
    /\ UNCHANGED <<producerVars, bufferedVars>>

\* resharding: two open shards are closed and replaced by one child
Merge(one, two) ==
    /\ ~crashed
    /\ Open(one) /\ Open(two) /\ one # two
    /\ NumShards + 1 <= MaxShards
    /\ topology' = Append(topology, Shard(NumShards + 1, one, two))
    /\ UNCHANGED <<written, pageLimit, throttles, tailVars, monVars, readers,
                   processed, crashed>>
    /\ UNCHANGED <<producerVars, bufferedVars>>

\* ------------------------------------------------------- pure functions
\* listShards, one turn of its loop: shards = append(shards, page...).
\* The request never carries a cursor, so every turn gets the first page.
listShardsAppend(shards) ==
    IF Len(shards) + Len(DescribeStreamShards) <= MaxListed
    THEN shards \o DescribeStreamShards
    ELSE shards

\* hasChildren as it would be if AdjacentParentShardId were not recorded
RECURSIVE hasChildrenParentOnly(_)
hasChildrenParentOnly(shards) ==
    IF shards = <<>> THEN {}
    ELSE (IF Head(shards).ParentShardId # Nil
          THEN {Head(shards).ParentShardId} ELSE {})
         \cup hasChildrenParentOnly(Tail(shards))

\* withNoChildren, first loop: the keys of the hasChildren map
RECURSIVE hasChildren(_)
hasChildren(shards) ==
    IF shards = <<>> THEN {}
    ELSE LET s == Head(shards) IN
         (IF s.AdjacentParentShardId # Nil THEN {s.AdjacentParentShardId} ELSE {})
         \cup (IF s.ParentShardId # Nil THEN {s.ParentShardId} ELSE {})
         \cup hasChildren(Tail(shards))

\* withNoChildren, second loop: the ids not in the map, in listing order
RECURSIVE withNoChildrenFrom(_, _)
withNoChildrenFrom(shards, parents) ==
    IF shards = <<>> THEN <<>>
    ELSE (IF Head(shards).ShardId \notin parents
          THEN <<Head(shards).ShardId>> ELSE <<>>)
         \o withNoChildrenFrom(Tail(shards), parents)

\* withNoChildren as it would be if the hasChildren map were never consulted
withNoChildrenAll(shards) == [i \in 1..Len(shards) |-> shards[i].ShardId]

withNoChildren(shards) == withNoChildrenFrom(shards, hasChildren(shards))

\* nextShards as it would be if it matched on either parent
nextShardsEitherParent(finished, shards) ==
    SelectSeq(shards, LAMBDA s :
        \/ s.ParentShardId # Nil /\ finished = s.ParentShardId
        \/ s.AdjacentParentShardId # Nil /\ finished = s.AdjacentParentShardId)

\* nextShards as it would be if it matched on the adjacent parent
nextShardsAdjacentParent(finished, shards) ==
    SelectSeq(shards, LAMBDA s :
        s.AdjacentParentShardId # Nil /\ finished = s.AdjacentParentShardId)

\* nextShards as it would be if every listed child were taken, whoever
\* its parent
nextShardsAnyChild(finished, shards) ==
    SelectSeq(shards, LAMBDA s : s.ParentShardId # Nil)

\* nextShards: the listed shards whose ParentShardId is the finished shard
nextShards(finished, shards) ==
    SelectSeq(shards, LAMBDA s : s.ParentShardId # Nil /\ finished = s.ParentShardId)

\* the next wait as it would be without the ceiling
maybeDoubleUncapped(current, max) == 2 * current

maybeDouble(current, max) ==
    LET next == 2 * current IN IF next > max THEN max ELSE next

\* ------------------------------------------------------------- launching
\* tail starts the leaves with LATEST, the monitor the children with TRIM_HORIZON
\* the monitor's iterator type as it would be if children were tailed too
monitorIterTypeLatest == LATEST

tailIterType == LATEST
monitorIterType == TRIM_HORIZON

\* startShardConsumer: a new shardConsumer goroutine, about to run init
startShardConsumer(shard, iterType, by) ==
    [shard |-> shard, iterType |-> iterType, by |-> by, pc |-> "init",
     iterator |-> NilIterator, opened |-> "none", start |-> 0,
     waitTime |-> BaseWaitTime, consecutive |-> 0,
     batch |-> <<>>, polled |-> <<>>, signalled |-> <<>>]

startAll(ids, iterType, by) ==
    [i \in 1..Len(ids) |-> startShardConsumer(ids[i], iterType, by)]

ReaderIds == 1..Len(readers)

\* ------------------------------------------------------------------ tail
\* tail -> listShards: one DescribeStream call that succeeds
TailListPage ==
    /\ ~crashed
    /\ tailPc = "list"
    /\ tailShards' = listShardsAppend(tailShards)
    /\ tailPc' = IF DescribeStreamHasMoreShards THEN "list" ELSE "launch"
    /\ UNCHANGED <<backendVars, leaves, monVars, readers, processed, crashed>>
    /\ UNCHANGED <<producerVars, bufferedVars>>

\* tail as it would be if the monitor were started before the listing
TailListFailAfterMonitor ==
    /\ ~crashed
    /\ tailPc = "list"
    /\ tailPc' = "failed"
    /\ monPc' = "recv"
    /\ UNCHANGED <<backendVars, tailShards, leaves, monShard, monShards,
                   readers, processed, crashed>>
    /\ UNCHANGED <<producerVars, bufferedVars>>

\* tail -> listShards: DescribeStream fails, tail returns the error
TailListFail ==
    /\ ~crashed
    /\ tailPc = "list"
    /\ tailPc' = "failed"
    /\ UNCHANGED <<backendVars, tailShards, leaves, monVars, readers,
                   processed, crashed>>
    /\ UNCHANGED <<producerVars, bufferedVars>>

\* tail: go c.monitor(); a reader per leaf; return nil
TailLaunch ==
    /\ ~crashed
    /\ tailPc = "launch"
    /\ monPc' = "recv"
    /\ leaves' = withNoChildren(tailShards)
    /\ readers' = readers \o startAll(withNoChildren(tailShards), tailIterType, "tail")
    /\ tailPc' = "returned"
    /\ UNCHANGED <<backendVars, tailShards, monShard, monShards, processed,
                   crashed>>
    /\ UNCHANGED <<producerVars, bufferedVars>>

\* ---------------------------------------- tail, one statement at a time
\* the readers tail has started so far
TailStarted == Len(SelectSeq(readers, LAMBDA s : s.by = "tail"))

\* tail: go c.monitor(), and withNoChildren(shards) evaluated for the loop
TailGoMonitor ==
    /\ ~crashed
    /\ tailPc = "launch"
    /\ monPc = "off"
    /\ monPc' = "recv"
    /\ leaves' = withNoChildren(tailShards)
    /\ UNCHANGED <<backendVars, tailPc, tailShards, monShard, monShards,
                   readers, processed, crashed>>
    /\ UNCHANGED <<producerVars, bufferedVars>>

\* the loop as it would be if startShardConsumer ran init and consume itself
TailStartOneJoined ==
    /\ ~crashed
    /\ tailPc = "launch"
    /\ monPc # "off"
    /\ TailStarted < Len(leaves)
    /\ \A r \in ReaderIds : readers[r].pc = "done"
    /\ readers' = Append(readers,
          startShardConsumer(leaves[TailStarted + 1], tailIterType, "tail"))
    /\ UNCHANGED <<backendVars, tailVars, monVars, processed, crashed>>
    /\ UNCHANGED <<producerVars, bufferedVars>>

\* tail: one turn of the loop, c.startShardConsumer(id, LATEST, c.processor),
\* which starts the goroutine and returns
TailStartOne ==
    /\ ~crashed
    /\ tailPc = "launch"
    /\ monPc # "off"
    /\ TailStarted < Len(leaves)
    /\ readers' = Append(readers,
          startShardConsumer(leaves[TailStarted + 1], tailIterType, "tail"))
    /\ UNCHANGED <<backendVars, tailVars, monVars, processed, crashed>>
    /\ UNCHANGED <<producerVars, bufferedVars>>

\* tail: the loop is over, return nil
TailReturn ==
    /\ ~crashed
    /\ tailPc = "launch"
    /\ monPc # "off"
    /\ TailStarted = Len(leaves)
    /\ tailPc' = "returned"
    /\ UNCHANGED <<backendVars, tailShards, leaves, monVars, readers,
                   processed, crashed>>
    /\ UNCHANGED <<producerVars, bufferedVars>>

\* --------------------------------------------------------------- monitor
\* completeShard := <-c.complete, meeting a reader's send
MonitorRecv(r) ==
    /\ ~crashed
    /\ monPc = "recv"
    /\ readers[r].pc = "send"
    /\ monShard' = readers[r].shard
    /\ monShards' = <<>>
    /\ monPc' = "list"
    /\ readers' = [readers EXCEPT ![r] =
                      [@ EXCEPT !.pc = "done",
                                !.signalled = Append(@, readers[r].shard)]]
    /\ UNCHANGED <<backendVars, tailVars, processed, crashed>>
    /\ UNCHANGED <<producerVars, bufferedVars>>

\* monitor -> listShards: one DescribeStream call that succeeds
MonitorListPage ==
    /\ ~crashed
    /\ monPc = "list"
    /\ monShards' = listShardsAppend(monShards)
    /\ monPc' = IF DescribeStreamHasMoreShards THEN "list" ELSE "launch"
    /\ UNCHANGED <<backendVars, tailVars, monShard, readers, processed, crashed>>
    /\ UNCHANGED <<producerVars, bufferedVars>>

\* monitor as it would be if a failed listing were dropped and the loop went
\* back to the receive
MonitorListFailIgnored ==
    /\ ~crashed
    /\ monPc = "list"
    /\ monPc' = "recv"
    /\ UNCHANGED <<backendVars, tailVars, monShard, monShards, readers,
                   processed, crashed>>
    /\ UNCHANGED <<producerVars, bufferedVars>>

\* monitor -> listShards: DescribeStream fails, maybePanic(err)
MonitorListFail ==
    /\ ~crashed
    /\ monPc = "list"
    /\ crashed' = TRUE
    /\ UNCHANGED <<backendVars, tailVars, monVars, readers, processed>>
    /\ UNCHANGED <<producerVars, bufferedVars>>

\* monitor: a reader for every child of the completed shard
MonitorLaunch ==
    /\ ~crashed
    /\ monPc = "launch"
    /\ readers' = readers \o
          startAll([i \in 1..Len(nextShards(monShard, monShards)) |->
                       nextShards(monShard, monShards)[i].ShardId],
                   monitorIterType, "monitor")
    /\ monPc' = "recv"
    /\ UNCHANGED <<backendVars, tailVars, monShard, monShards, processed,
                   crashed>>
    /\ UNCHANGED <<producerVars, bufferedVars>>

\* ---------------------------------------------------------- shardConsumer
Reverse(seq) == [i \in 1..Len(seq) |-> seq[Len(seq) + 1 - i]]

\* the processor's argument as it would be if the batch were handed over backwards
consumeProcessorRecordsReversed(records) == Reverse(records)

\* the processor's argument as it would be if the batch were dropped
consumeProcessorRecordsNone(records) == <<>>

\* the loop exit as it would be if consume left the loop after every batch
consumeAfterProcessAlways(iterator) == "send"

\* the loop exit as it would be if consume never left the loop
consumeAfterProcessNever(iterator) == "poll"

\* consume: s.iterator = resp.NextShardIterator
consumeIterator(current, next) == next

\* consume: the records handed to s.processor
consumeProcessorRecords(records) == records

\* consume: leave the loop on a nil iterator and send on s.complete
consumeAfterProcess(iterator) ==
    IF iterator = NilIterator THEN "send" ELSE "poll"

\* init: GetShardIterator succeeds
ReaderInit(r) ==
    /\ ~crashed
    /\ readers[r].pc = "init"
    /\ readers' = [readers EXCEPT ![r] =
          [@ EXCEPT !.iterator = GetShardIterator(readers[r].shard, readers[r].iterType),
                    !.opened = readers[r].iterType,
                    !.start = GetShardIterator(readers[r].shard, readers[r].iterType).pos,
                    !.pc = "poll"]]
    /\ UNCHANGED <<backendVars, tailVars, monVars, processed, crashed>>
    /\ UNCHANGED <<producerVars, bufferedVars>>

\* init: GetShardIterator fails, maybePanic(err)
ReaderInitFail(r) ==
    /\ ~crashed
    /\ readers[r].pc = "init"
    /\ crashed' = TRUE
    /\ UNCHANGED <<backendVars, tailVars, monVars, readers, processed>>
    /\ UNCHANGED <<producerVars, bufferedVars>>

\* consume as it would be if the processor were called in a goroutine of its
\* own and the loop went on polling
ReaderPollWhileProcessing(r, k) ==
    /\ ~crashed
    /\ readers[r].pc \in {"poll", "process"}
    /\ readers[r].iterator # NilIterator
    /\ k \in 0..Available(readers[r].iterator)
    /\ readers' = [readers EXCEPT ![r] =
          [@ EXCEPT !.iterator = GetRecordsNextShardIterator(readers[r].iterator, k),
                    !.batch = @ \o GetRecordsRecords(readers[r].iterator, k),
                    !.polled = @ \o GetRecordsRecords(readers[r].iterator, k),
                    !.pc = "process"]]
    /\ UNCHANGED <<backendVars, tailVars, monVars, processed, crashed>>
    /\ UNCHANGED <<producerVars, bufferedVars>>

\* consume as it would be if a response without records went straight to the
\* next turn of the loop
ReaderPollSkipsEmpty(r, k) ==
    /\ ~crashed
    /\ readers[r].pc = "poll"
    /\ readers[r].iterator # NilIterator
    /\ k \in 0..Available(readers[r].iterator)
    /\ readers' = [readers EXCEPT ![r] =
          [@ EXCEPT !.waitTime = BaseWaitTime,
                    !.consecutive = 0,
                    !.iterator = GetRecordsNextShardIterator(readers[r].iterator, k),
                    !.batch = GetRecordsRecords(readers[r].iterator, k),
                    !.polled = @ \o GetRecordsRecords(readers[r].iterator, k),
                    !.pc = IF k = 0
                           THEN consumeAfterProcess(
                                    GetRecordsNextShardIterator(readers[r].iterator, k))
                           ELSE "process"]]
    /\ UNCHANGED <<backendVars, tailVars, monVars, processed, crashed>>
    /\ UNCHANGED <<producerVars, bufferedVars>>

\* consume: GetRecords succeeds with the next k records
ReaderPoll(r, k) ==
    /\ ~crashed
    /\ readers[r].pc = "poll"
    /\ readers[r].iterator # NilIterator
    /\ k \in 0..Available(readers[r].iterator)
    /\ readers' = [readers EXCEPT ![r] =
          [@ EXCEPT !.waitTime = BaseWaitTime,
                    !.consecutive = 0,
                    !.iterator = consumeIterator(readers[r].iterator,
                                    GetRecordsNextShardIterator(readers[r].iterator, k)),
                    !.batch = GetRecordsRecords(readers[r].iterator, k),
                    !.polled = @ \o GetRecordsRecords(readers[r].iterator, k),
                    !.pc = "process"]]
    /\ UNCHANGED <<backendVars, tailVars, monVars, processed, crashed>>
    /\ UNCHANGED <<producerVars, bufferedVars>>

\* consume as it would be if a throttled poll moved the iterator on
consumeThrottledAdvancing(r) ==
    /\ ~crashed
    /\ readers[r].pc = "poll"
    /\ readers[r].iterator # NilIterator
    /\ readers' = [readers EXCEPT ![r] =
          [@ EXCEPT !.consecutive = @ + 1, !.pc = "wait",
                    !.iterator = [@ EXCEPT !.pos = @ + 1]]]
    /\ UNCHANGED <<topology, written, pageLimit, tailVars, monVars, processed,
                   crashed>>
    /\ UNCHANGED <<producerVars, bufferedVars>>

\* consume: GetRecords fails with ProvisionedThroughputExceededException;
\* consecutive counts the throttled polls since the last successful one
consumeThrottled(r) ==
    /\ ~crashed
    /\ readers[r].pc = "poll"
    /\ readers[r].iterator # NilIterator
    /\ readers' = [readers EXCEPT ![r] =
          [@ EXCEPT !.consecutive = @ + 1, !.pc = "wait"]]
    /\ UNCHANGED <<topology, written, pageLimit, tailVars, monVars, processed,
                   crashed>>
    /\ UNCHANGED <<producerVars, bufferedVars>>

\* a throttled poll out of the stream's budget of throttles
ReaderThrottled(r) ==
    /\ throttles < MaxThrottles
    /\ throttles' = throttles + 1
    /\ consumeThrottled(r)

\* a throttled poll of a reader the backend keeps throttling
ReaderThrottledAgain(r) ==
    /\ readers[r].consecutive \in 1..(MaxConsecutive - 1)
    /\ UNCHANGED throttles
    /\ consumeThrottled(r)

\* the step after the wait as it would be without the continue
consumeAfterWaitFallThrough == "process"

\* consume: after the wait, continue with the next GetRecords
consumeAfterWait == "poll"

\* consume: the wait is over; waitTime = maybeDouble(...); continue
ReaderWaitDone(r) ==
    /\ ~crashed
    /\ readers[r].pc = "wait"
    /\ readers' = [readers EXCEPT ![r] =
          [@ EXCEPT !.waitTime = maybeDouble(readers[r].waitTime, MaxWaitTime),
                    !.pc = consumeAfterWait]]
    /\ UNCHANGED <<backendVars, tailVars, monVars, processed, crashed>>
    /\ UNCHANGED <<producerVars, bufferedVars>>

\* consume as it would be if any other error ended the loop like a closed
\* shard does
ReaderPollFailSwallowed(r) ==
    /\ ~crashed
    /\ readers[r].pc = "poll"
    /\ readers' = [readers EXCEPT ![r] = [@ EXCEPT !.pc = "send"]]
    /\ UNCHANGED <<backendVars, tailVars, monVars, processed, crashed>>
    /\ UNCHANGED <<producerVars, bufferedVars>>

\* consume: GetRecords fails with any other error, panic(err)
ReaderPollFail(r) ==
    /\ ~crashed
    /\ readers[r].pc = "poll"
    /\ crashed' = TRUE
    /\ UNCHANGED <<backendVars, tailVars, monVars, readers, processed>>
    /\ UNCHANGED <<producerVars, bufferedVars>>

\* consume: s.processor(resp.Records) runs and returns
ReaderProcess(r) ==
    /\ ~crashed
    /\ readers[r].pc = "process"
    /\ processed' = [processed EXCEPT ![readers[r].shard] =
                        @ \o consumeProcessorRecords(readers[r].batch)]
    /\ readers' = [readers EXCEPT ![r] =
          [@ EXCEPT !.batch = <<>>,
                    !.pc = consumeAfterProcess(readers[r].iterator)]]
    /\ UNCHANGED <<backendVars, tailVars, monVars, crashed>>
    /\ UNCHANGED <<producerVars, bufferedVars>>

\* ================================================================ producer
\* ------------------------------------------------------------- validation
EmptyPartitionKey == "Partition keys may not be empty"
InvalidUnicode == "Partition key must be valid unicode"
PartitionKeyTooLong == "Partition key must be at most 256 characters"
EmptyValue == "Value must not be empty"

\* the error a failed PutRecords call returns
TransportError == "PutRecords failed"

\* a nil *string
NilString == "<nil>"

\* the error code of a failed entry of a PutRecords response
ErrorCode == "ProvisionedThroughputExceededException"

RECURSIVE utf8ValidFrom(_, _)
\* utf8.ValidString from position i on, the string being its bytes: the
\* ASCII bytes up to the next byte of a longer encoding are passed over
utf8ValidFrom(s, i) ==
    LET rest == {k \in i..Len(s) : s[k] >= 128}
    IN  IF rest = {} THEN TRUE
        ELSE LET j == CHOOSE k \in rest : \A l \in rest : k <= l
                 b == s[j]
                 cont(k, lo, hi) == k <= Len(s) /\ s[k] >= lo /\ s[k] <= hi
             IN  IF b \in 194..223
                 THEN cont(j + 1, 128, 191) /\ utf8ValidFrom(s, j + 2)
                 ELSE IF b = 224
                 THEN cont(j + 1, 160, 191) /\ cont(j + 2, 128, 191)
                      /\ utf8ValidFrom(s, j + 3)
                 ELSE IF b \in (225..236) \cup {238, 239}
                 THEN cont(j + 1, 128, 191) /\ cont(j + 2, 128, 191)
                      /\ utf8ValidFrom(s, j + 3)
                 ELSE IF b = 237
                 THEN cont(j + 1, 128, 159) /\ cont(j + 2, 128, 191)
                      /\ utf8ValidFrom(s, j + 3)
                 ELSE IF b = 240
                 THEN cont(j + 1, 144, 191) /\ cont(j + 2, 128, 191)
                      /\ cont(j + 3, 128, 191) /\ utf8ValidFrom(s, j + 4)
                 ELSE IF b \in 241..243
                 THEN cont(j + 1, 128, 191) /\ cont(j + 2, 128, 191)
                      /\ cont(j + 3, 128, 191) /\ utf8ValidFrom(s, j + 4)
                 ELSE IF b = 244
                 THEN cont(j + 1, 128, 143) /\ cont(j + 2, 128, 191)
                      /\ cont(j + 3, 128, 191) /\ utf8ValidFrom(s, j + 4)
                 ELSE FALSE

utf8ValidString(s) == utf8ValidFrom(s, 1)

\* the length check as it would be with the limit one byte short
validateTooLongAt256(key) == Len(key) >= MaxKeyLength

\* validate: len(*key) > 256
validateTooLong(key) == Len(key) > MaxKeyLength

\* the errors as they would be if validate returned at the first one
validateFirstOnly(key, value) ==
    IF Len(key) = 0 THEN <<EmptyPartitionKey>>
    ELSE IF validateTooLong(key) THEN <<PartitionKeyTooLong>>
    ELSE IF ~utf8ValidString(key) THEN <<InvalidUnicode>>
    ELSE IF Len(value) = 0 THEN <<EmptyValue>>
    ELSE <<>>

\* validate: the errors appended to the multierror, <<>> being nil
validate(key, value) ==
    (IF Len(key) = 0 THEN <<EmptyPartitionKey>> ELSE <<>>)
    \o (IF validateTooLong(key) THEN <<PartitionKeyTooLong>> ELSE <<>>)
    \o (IF ~utf8ValidString(key) THEN <<InvalidUnicode>> ELSE <<>>)
    \o (IF Len(value) = 0 THEN <<EmptyValue>> ELSE <<>>)

\* ------------------------------------------------------- keys and values
Repeat(b, n) == [i \in 1..n |-> b]

\* the messages a caller puts, keys and values as bytes: two that pass
\* validation, "a" and 254 times "a" before "é", and six that do not, with
\* the keys "", "a", 257 times "a", "\xc1\xbf" and 255 times "a" before
\* "\xc1\xbf"
Messages ==
    {[key |-> <<97>>, value |-> <<108>>],
     [key |-> Repeat(97, MaxKeyLength - 2) \o <<195, 169>>, value |-> <<108>>],
     [key |-> <<>>, value |-> <<108>>],
     [key |-> <<>>, value |-> <<>>],
     [key |-> <<97>>, value |-> <<>>],
     [key |-> Repeat(97, MaxKeyLength + 1), value |-> <<108>>],
     [key |-> <<193, 191>>, value |-> <<108>>],
     [key |-> Repeat(97, MaxKeyLength - 1) \o <<193, 191>>, value |-> <<>>]}

\* ---------------------------------------------------------------- buffer
\* the zero message of a slot not yet written
NilMessage == [PartitionKey |-> <<>>, Value |-> <<>>]

\* a Producer with the given SendSize and make([]message, SendSize)
New(sendSize) ==
    [SendSize |-> sendSize, current |-> 0,
     messages |-> [i \in 1..sendSize |-> NilMessage]]

\* reset as it would be if it kept the slice
resetCountOnly(q) == [q EXCEPT !.current = 0]

\* reset: p.current = 0, p.messages = make([]message, p.SendSize)
reset(q) ==
    [q EXCEPT !.current = 0,
              !.messages = [i \in 1..q.SendSize |-> NilMessage]]

\* Put: p.messages[p.current] = message{key, value}; p.current++
PutMessage(q, key, value) ==
    [q EXCEPT !.messages[q.current + 1] = [PartitionKey |-> key, Value |-> value],
              !.current = @ + 1]

\* ------------------------------------------------------------- transport
\* the request as it would be with the entries in reverse order
putRecordsInputReversed(messages) ==
    [i \in 1..Len(messages) |->
        [Data |-> messages[Len(messages) + 1 - i].Value,
         PartitionKey |-> messages[Len(messages) + 1 - i].PartitionKey]]

\* putRecordsInput: one request entry per message, in order
putRecordsInput(messages) ==
    [i \in 1..Len(messages) |->
        [Data |-> messages[i].Value, PartitionKey |-> messages[i].PartitionKey]]

\* a PutRecords response for n entries, those at the positions in failed
\* carrying an error code
PutRecordsOutput(n, failed) ==
    [FailedRecordCount |-> Cardinality(failed),
     Records |-> [i \in 1..n |->
                    [ErrorCode |-> IF i \in failed THEN ErrorCode ELSE NilString]]]

\* the retry set as it would be if every entry were sent again
failedMessagesAll(messages, records) == messages

\* the retry set as it would be if the entries without error code were kept
failedMessagesSucceeded(messages, records) ==
    LET kept == SelectSeq([i \in 1..Len(records) |-> i],
                          LAMBDA i : records[i].ErrorCode = NilString)
    IN  [j \in 1..Len(kept) |-> messages[kept[j]]]

RECURSIVE failedMessagesFrom(_, _, _)
\* failedMessages from entry i on
failedMessagesFrom(messages, records, i) ==
    IF i > Len(records) THEN <<>>
    ELSE (IF records[i].ErrorCode # NilString THEN <<messages[i]>> ELSE <<>>)
         \o failedMessagesFrom(messages, records, i + 1)

\* failedMessages: the messages whose response entry has an ErrorCode
failedMessages(messages, records) == failedMessagesFrom(messages, records, 1)

\* the loop as it would be if send returned after the first response
sendRetriesNever(res) == FALSE

\* send: another attempt unless *res.FailedRecordCount == 0
sendRetries(res) == res.FailedRecordCount # 0

\* -------------------------------------------------------------- throttle
intMin(x, y) == IF x < y THEN x ELSE y

\* New: the function p.Throttle, which builds an exponentialThrottle
Throttle == [waitFor |-> 500, maxWait |-> 10000]

\* exponentialThrottle.Await: the sleep, in ms, and the throttle after it
Await(e) ==
    [slept |-> e.waitFor,
     throttle |-> [e EXCEPT !.waitFor = intMin(2 * e.waitFor, e.maxWait)]]

\* ------------------------------------------------------------ Put, Flush
\* the slice as it would be if send took every slot of the buffer
sendSliceAll(q) == q.messages

\* send: messages := p.messages[0:p.current]
sendSlice(q) == SubSeq(q.messages, 1, q.current)

\* send, up to the first PutRecords, for the call that runs it
send(q, call) ==
    IF Len(q.messages) = 0
    THEN /\ p' = q
         /\ sendPc' = "idle"
         /\ sendMessages' = <<>>
         /\ lastCall' = call
         /\ waits' = <<>>
    ELSE /\ p' = q
         /\ sendPc' = "call"
         /\ sendMessages' = sendSlice(q)
         /\ lastCall' = call
         /\ waits' = <<>>

\* the call failed validation; every call records in first the number of
\* its first PutRecords, should it make one, and in rejected whether the
\* call before it failed validation
Rejected(call) == call.err # <<>> /\ call.err # <<TransportError>>

\* the test as it would be if Put went on after a failed validation
PutReturnsNever(err) == FALSE

\* Put: if err := validate(key, value); err != nil { return err }
PutReturns(err) == err # <<>>

\* the test as it would be if every Put sent
PutSendsAlways(q) == TRUE

\* the test as it would be if Put sent only once the count had passed SendSize
PutSendsAbove(q) == q.current > q.SendSize

\* Put: p.current == p.SendSize
PutSends(q) == q.current = q.SendSize

\* Put, up to its return or to the first PutRecords of its send
Put(key, value) ==
    /\ sendPc = "idle"
    /\ LET err == validate(key, value)
           call == [op |-> "Put", key |-> key, value |-> value, err |-> err,
                    first |-> Len(putRecords) + 1,
                    rejected |-> Rejected(lastCall)]
       IN  IF PutReturns(err)
           THEN /\ lastCall' = call
                /\ UNCHANGED <<p, sendPc, sendMessages, calls, waits>>
           ELSE /\ Len(calls) < MaxCalls
                /\ calls' = Append(calls, [op |-> "Put", key |-> key,
                                           value |-> value])
                /\ IF PutSends(PutMessage(p, key, value))
                   THEN send(PutMessage(p, key, value), call)
                   ELSE /\ p' = PutMessage(p, key, value)
                        /\ lastCall' = call
                        /\ UNCHANGED <<sendPc, sendMessages, waits>>
    /\ UNCHANGED <<putRecords, failures, consumerVars, bufferedVars>>

\* Flush, up to the first PutRecords of its send
Flush ==
    /\ sendPc = "idle"
    /\ Len(calls) < MaxCalls
    /\ LET call == [op |-> "Flush", key |-> <<>>, value |-> <<>>, err |-> <<>>,
                    first |-> Len(putRecords) + 1,
                    rejected |-> Rejected(lastCall)]
       IN  /\ calls' = Append(calls, [op |-> "Flush", key |-> <<>>,
                                      value |-> <<>>])
           /\ send(p, call)
    /\ UNCHANGED <<putRecords, failures, consumerVars, bufferedVars>>

\* send: PutRecords answers, the entries at the positions in failed failing;
\* with no failed entry send returns nil and the deferred reset runs
SendPutRecords(failed) ==
    /\ sendPc = "call"
    /\ failed \subseteq 1..Len(sendMessages)
    /\ failed # {} => failures < MaxFailures
    /\ failures' = IF failed = {} THEN failures ELSE failures + 1
    /\ putRecords' = Append(putRecords,
                            [records |-> putRecordsInput(sendMessages),
                             failed |-> failed, err |-> FALSE])
    /\ LET res == PutRecordsOutput(Len(sendMessages), failed)
       IN  IF sendRetries(res)
           THEN /\ sendMessages' = failedMessages(sendMessages, res.Records)
                /\ sendPc' = "await"
                /\ UNCHANGED p
           ELSE /\ sendMessages' = <<>>
                /\ sendPc' = "idle"
                /\ p' = reset(p)
    /\ UNCHANGED <<lastCall, calls, waits, consumerVars, bufferedVars>>

\* the step as it would be if send tried a failed PutRecords again
SendPutRecordsFailRetried ==
    /\ sendPc = "call"
    /\ failures < MaxFailures
    /\ failures' = failures + 1
    /\ putRecords' = Append(putRecords,
                            [records |-> putRecordsInput(sendMessages),
                             failed |-> {}, err |-> TRUE])
    /\ sendPc' = "await"
    /\ UNCHANGED <<p, sendMessages, lastCall, calls, waits, consumerVars, bufferedVars>>

\* the step as it would be if send kept the entries it had not got
\* through for the next send
SendPutRecordsFailKeeps ==
    /\ sendPc = "call"
    /\ putRecords' = Append(putRecords,
                            [records |-> putRecordsInput(sendMessages),
                             failed |-> {}, err |-> TRUE])
    /\ lastCall' = [lastCall EXCEPT !.err = <<TransportError>>]
    /\ sendMessages' = <<>>
    /\ sendPc' = "idle"
    /\ p' = [p EXCEPT !.current = IF Len(sendMessages) < p.SendSize
                                  THEN Len(sendMessages) ELSE 0,
                      !.messages = [i \in 1..p.SendSize |->
                                       IF i <= Len(sendMessages)
                                       THEN sendMessages[i] ELSE NilMessage]]
    /\ UNCHANGED <<calls, failures, waits, consumerVars, bufferedVars>>

\* send: PutRecords fails; send returns the error and the deferred reset runs
SendPutRecordsFail ==
    /\ sendPc = "call"
    /\ putRecords' = Append(putRecords,
                            [records |-> putRecordsInput(sendMessages),
                             failed |-> {}, err |-> TRUE])
    /\ lastCall' = [lastCall EXCEPT !.err = <<TransportError>>]
    /\ sendMessages' = <<>>
    /\ sendPc' = "idle"
    /\ p' = reset(p)
    /\ UNCHANGED <<calls, failures, waits, consumerVars, bufferedVars>>

\* the step as it would be if send went on without calling Await
SendAwaitSkipped ==
    /\ sendPc = "await"
    /\ sendPc' = "call"
    /\ UNCHANGED <<p, sendMessages, lastCall, putRecords, calls, failures,
                   waits, consumerVars, bufferedVars>>

\* send: p.Throttle().Await() on the throttle p.Throttle() has just built
SendAwait ==
    /\ sendPc = "await"
    /\ sendPc' = "call"
    /\ waits' = Append(waits, Await(Throttle).slept)
    /\ UNCHANGED <<p, sendMessages, lastCall, putRecords, calls, failures,
                   consumerVars, bufferedVars>>

\* ======================================================= BufferedProducer
\* StringMessage: the first 256 bytes are the partition key, all the value
StringMessage(str) ==
    [PartitionKey |-> SubSeq(str, 1, intMin(Len(str), MaxKeyLength)),
     Value |-> str]

\* the lines a caller puts: "", "a", "b" and "ab"
Lines == {<<>>, <<97>>, <<98>>, <<97, 98>>}

\* validPartitionKey, validValue: the error of a message, NilString for none
validMessage(msg) ==
    IF Len(msg.PartitionKey) = 0
    THEN "msg.PartitionKey must be a non-empty string"
    ELSE IF Len(msg.Value) = 0
    THEN "msg.Value must be at least 1 byte long"
    ELSE NilString

\* NewBufferedProducer: the three slices are made with sendSize slots
NewBufferedProducer(sendSize) ==
    [SendSize |-> sendSize, current |-> 0,
     messages |-> [i \in 1..sendSize |-> NilMessage],
     partitionKeys |-> [i \in 1..sendSize |-> <<>>],
     values |-> [i \in 1..sendSize |-> <<>>]]

\* BufferedProducer.reset
BufferedReset(q) ==
    [q EXCEPT !.current = 0,
              !.messages = [i \in 1..q.SendSize |-> NilMessage],
              !.partitionKeys = [i \in 1..q.SendSize |-> <<>>],
              !.values = [i \in 1..q.SendSize |-> <<>>]]

\* a FailedPut
FailedPut(msg, code, text) ==
    [Message |-> msg, ErrorCode |-> code, ErrorMessage |-> text]

\* the FailedPuts of a failed PutRecords as they would be if only the first
\* message were returned
sendClientErrorFirstOnly(q) ==
    IF q.current = 0 THEN <<>>
    ELSE <<FailedPut(q.messages[1], NilString, NilString)>>

\* send: every buffered message as a FailedPut with no code and no message
sendClientError(q) ==
    [i \in 1..q.current |-> FailedPut(q.messages[i], NilString, NilString)]

RECURSIVE sendFailuresFrom(_, _, _)
\* send: the FailedPuts of a response, entry i on
sendFailuresFrom(q, records, i) ==
    IF i > Len(records) THEN <<>>
    ELSE (IF records[i].ErrorCode # NilString
          THEN <<FailedPut(q.messages[i], records[i].ErrorCode,
                           records[i].ErrorMessage)>>
          ELSE <<>>)
         \o sendFailuresFrom(q, records, i + 1)

\* a PutRecords response of the service for n entries, those at the
\* positions in failed carrying an error code and an error message
BufferedOutput(n, failed) ==
    [FailedRecordCount |-> Cardinality(failed),
     Records |-> [i \in 1..n |->
                    [ErrorCode |-> IF i \in failed THEN ErrorCode ELSE NilString,
                     ErrorMessage |-> IF i \in failed THEN "Rate exceeded"
                                      ELSE NilString]]]

\* BufferedProducer.send on q when PutRecords fails (fails) or answers with
\* the entries at the positions in failed failing: the producer after the
\* deferred reset, the two values returned, and the PutRecords call made
BufferedSend(q, fails, failed) ==
    IF q.current = 0
    THEN [after |-> q, failures |-> <<>>, err |-> NilString, called |-> <<>>]
    ELSE LET entries == [i \in 1..q.current |->
                            [PartitionKey |-> q.partitionKeys[i],
                             Data |-> q.values[i]]]
             result == BufferedOutput(q.current, failed)
         IN  IF fails
             THEN [after |-> BufferedReset(q),
                   failures |-> sendClientError(q),
                   err |-> TransportError,
                   called |-> <<[records |-> entries, failed |-> {},
                                 err |-> TRUE]>>]
             ELSE [after |-> BufferedReset(q),
                   failures |-> IF result.FailedRecordCount > 0
                                THEN sendFailuresFrom(q, result.Records, 1)
                                ELSE <<>>,
                   err |-> NilString,
                   called |-> <<[records |-> entries, failed |-> failed,
                                 err |-> FALSE]>>]

\* BufferedProducer.Put: store the message and its key and value
BufferedStore(q, msg) ==
    [q EXCEPT !.messages[q.current + 1] = msg,
              !.partitionKeys[q.current + 1] = msg.PartitionKey,
              !.values[q.current + 1] = msg.Value,
              !.current = @ + 1]

\* BufferedProducer.Put of a message, with the outcome of the PutRecords it
\* may make
BufferedPut(msg, fails, failed) ==
    /\ bufCalls < MaxCalls
    /\ bufCalls' = bufCalls + 1
    /\ failed \subseteq 1..(buffered.current + 1)
    /\ fails => failed = {}
    /\ IF validMessage(msg) # NilString
       THEN /\ fails = FALSE /\ failed = {}
            /\ bufReturned' = [op |-> "Put", had |-> buffered.messages,
                               failures |-> <<>>, err |-> validMessage(msg)]
            /\ UNCHANGED <<buffered, bufPutRecords>>
       ELSE IF BufferedStore(buffered, msg).current = buffered.SendSize
       THEN LET sent == BufferedSend(BufferedStore(buffered, msg), fails, failed)
            IN  /\ buffered' = sent.after
                /\ bufReturned' =
                      [op |-> "Put",
                       had |-> BufferedStore(buffered, msg).messages,
                       failures |-> sent.failures, err |-> sent.err]
                /\ bufPutRecords' = bufPutRecords \o sent.called
       ELSE /\ fails = FALSE /\ failed = {}
            /\ buffered' = BufferedStore(buffered, msg)
            /\ bufReturned' = [op |-> "Put", had |-> buffered'.messages,
                               failures |-> <<>>, err |-> NilString]
            /\ UNCHANGED bufPutRecords
    /\ UNCHANGED <<consumerVars, producerVars>>

\* BufferedProducer.Flush, with the outcome of the PutRecords it may make
BufferedFlush(fails, failed) ==
    /\ bufCalls < MaxCalls
    /\ bufCalls' = bufCalls + 1
    /\ failed \subseteq 1..buffered.current
    /\ fails => failed = {}
    /\ buffered.current = 0 => ~fails
    /\ LET sent == BufferedSend(buffered, fails, failed)
       IN  /\ buffered' = sent.after
           /\ bufReturned' = [op |-> "Flush", had |-> buffered.messages,
                              failures |-> sent.failures, err |-> sent.err]
           /\ bufPutRecords' = bufPutRecords \o sent.called
    /\ UNCHANGED <<consumerVars, producerVars>>

\* ------------------------------------------------------------------ spec
\* no call of the producer yet
NoCall ==
    [op |-> "none", key |-> <<>>, value |-> <<>>, err |-> <<>>, first |-> 1,
     rejected |-> FALSE]

\* a producer of the given SendSize, just built
ProducerStart(sendSize) ==
    /\ p = New(sendSize)
    /\ sendPc = "idle"
    /\ sendMessages = <<>>
    /\ lastCall = NoCall
    /\ putRecords = <<>>
    /\ calls = <<>>
    /\ failures = 0
    /\ waits = <<>>

\* a BufferedProducer of the given SendSize, just built
BufferedStart(sendSize) ==
    /\ buffered = NewBufferedProducer(sendSize)
    /\ bufReturned = [op |-> "none", had |-> <<>>, failures |-> <<>>,
                      err |-> NilString]
    /\ bufPutRecords = <<>>
    /\ bufCalls = 0

Init ==
    /\ ProducerStart(1)
    /\ BufferedStart(1)
    /\ topology \in {<<Shard(1, Nil, Nil)>>,
                     <<Shard(1, Nil, Nil), Shard(2, Nil, Nil)>>}
    /\ written = [id \in ShardIds |-> 0]
    /\ pageLimit \in (MaxShards - 1)..MaxShards
    /\ throttles = 0
    /\ tailPc = "list"
    /\ tailShards = <<>>
    /\ leaves = <<>>
    /\ monPc = "off"
    /\ monShard = Nil
    /\ monShards = <<>>
    /\ readers = <<>>
    /\ processed = [id \in ShardIds |-> <<>>]
    /\ crashed = FALSE

Backend ==
    \/ \E id \in ShardIds : Write(id)
    \/ \E id \in ShardIds : Split(id)
    \/ \E one, two \in ShardIds : Merge(one, two)

Coordinator ==
    \/ TailListPage
    \/ TailListFail
    \/ TailLaunch
    \/ \E r \in ReaderIds : MonitorRecv(r)
    \/ MonitorListPage
    \/ MonitorListFail
    \/ MonitorLaunch

Reader ==
    \/ \E r \in ReaderIds : ReaderInit(r)
    \/ \E r \in ReaderIds : ReaderInitFail(r)
    \/ \E r \in ReaderIds : \E k \in 0..MaxRecs : ReaderPoll(r, k)
    \/ \E r \in ReaderIds : ReaderThrottled(r)
    \/ \E r \in ReaderIds : ReaderWaitDone(r)
    \/ \E r \in ReaderIds : ReaderPollFail(r)
    \/ \E r \in ReaderIds : ReaderProcess(r)

Next == Backend \/ Coordinator \/ Reader

Spec == Init /\ [][Next]_vars

\* -------------------------------------------------- fair runs, no errors
\* consume: GetRecords succeeds with every record the shard holds past the cursor
ReaderPollAll(r) == ReaderPoll(r, Available(readers[r].iterator))

\* the steps of a run in which the backend returns no non-retryable error
FairNext ==
    \/ Backend
    \/ TailListPage
    \/ TailLaunch
    \/ \E r \in ReaderIds : MonitorRecv(r)
    \/ MonitorListPage
    \/ MonitorLaunch
    \/ \E r \in ReaderIds : ReaderInit(r)
    \/ \E r \in ReaderIds : \E k \in 0..MaxRecs : ReaderPoll(r, k)
    \/ \E r \in ReaderIds : ReaderThrottled(r)
    \/ \E r \in ReaderIds : ReaderWaitDone(r)
    \/ \E r \in ReaderIds : ReaderProcess(r)

\* every goroutine that can take a step is scheduled, the processor returns,
\* and a reader that keeps polling gets the shard's records
Fairness ==
    /\ WF_vars(TailListPage)
    /\ WF_vars(TailLaunch)
    /\ WF_vars(\E r \in ReaderIds : MonitorRecv(r))
    /\ WF_vars(MonitorListPage)
    /\ WF_vars(MonitorLaunch)
    /\ \A r \in ShardIds :
          /\ WF_vars(r \in ReaderIds /\ ReaderInit(r))
          /\ SF_vars(r \in ReaderIds /\ ReaderPollAll(r))
          /\ WF_vars(r \in ReaderIds /\ ReaderWaitDone(r))
          /\ WF_vars(r \in ReaderIds /\ ReaderProcess(r))

FairSpec == Init /\ [][FairNext]_vars /\ Fairness

\* ------------------------------------- a backend that keeps throttling
\* a stream of one shard whose listing fits one page
BackoffInit ==
    /\ Init
    /\ topology = <<Shard(1, Nil, Nil)>>
    /\ pageLimit = MaxShards

\* the steps of a run in which the shard may split and a throttled reader may
\* be throttled again
BackoffNext ==
    \/ \E id \in ShardIds : Write(id)
    \/ \E id \in ShardIds : Split(id)
    \/ Coordinator
    \/ Reader
    \/ \E r \in ReaderIds : ReaderThrottledAgain(r)

BackoffSpec == BackoffInit /\ [][BackoffNext]_vars

\* ------------------------------------ tail and the readers it starts
\* the steps of tail taken one statement at a time, next to the readers it
\* has started, on a stream that gets records and on which no call fails
TailNext ==
    \/ \E id \in ShardIds : Write(id)
    \/ TailListPage
    \/ TailGoMonitor
    \/ TailStartOne
    \/ TailReturn
    \/ \E r \in ReaderIds : ReaderInit(r)
    \/ \E r \in ReaderIds : \E k \in 0..MaxRecs : ReaderPoll(r, k)
    \/ \E r \in ReaderIds : ReaderProcess(r)

\* tail's goroutine is scheduled; the readers may stall, and the processor
\* may never return
TailFairness ==
    /\ WF_vars(TailGoMonitor)
    /\ WF_vars(TailStartOne)
    /\ WF_vars(TailReturn)

TailSpec == Init /\ [][TailNext]_vars /\ TailFairness

\* ------------------------------------------------ the producer's runs
\* a producer just built, next to a consumer that takes no step
\* a consumer that takes no step
ConsumerOff ==
    /\ topology = <<Shard(1, Nil, Nil)>>
    /\ written = [id \in ShardIds |-> 0]
    /\ pageLimit = MaxShards
    /\ throttles = 0
    /\ tailPc = "list"
    /\ tailShards = <<>>
    /\ leaves = <<>>
    /\ monPc = "off"
    /\ monShard = Nil
    /\ monShards = <<>>
    /\ readers = <<>>
    /\ processed = [id \in ShardIds |-> <<>>]
    /\ crashed = FALSE

\* a BufferedProducer just built, next to a consumer and a Producer that
\* take no step
BufferedInit ==
    /\ \E sendSize \in 1..MaxSize : BufferedStart(sendSize)
    /\ ProducerStart(1)
    /\ ConsumerOff

BufferedNext ==
    \/ \E str \in Lines : \E failed \in SUBSET (1..MaxSize) :
          BufferedPut(StringMessage(str), FALSE, failed)
    \/ \E str \in Lines : BufferedPut(StringMessage(str), TRUE, {})
    \/ \E failed \in SUBSET (1..MaxSize) : BufferedFlush(FALSE, failed)
    \/ BufferedFlush(TRUE, {})

BufferedSpec == BufferedInit /\ [][BufferedNext]_vars

ProducerInit ==
    /\ \E sendSize \in 1..MaxSize : ProducerStart(sendSize)
    /\ BufferedStart(1)
    /\ topology = <<Shard(1, Nil, Nil)>>
    /\ written = [id \in ShardIds |-> 0]
    /\ pageLimit = MaxShards
    /\ throttles = 0
    /\ tailPc = "list"
    /\ tailShards = <<>>
    /\ leaves = <<>>
    /\ monPc = "off"
    /\ monShard = Nil
    /\ monShards = <<>>
    /\ readers = <<>>
    /\ processed = [id \in ShardIds |-> <<>>]
    /\ crashed = FALSE

ProducerNext ==
    \/ \E m \in Messages : Put(m.key, m.value)
    \/ Flush
    \/ \E failed \in SUBSET (1..MaxSize) : SendPutRecords(failed)
    \/ SendPutRecordsFail
    \/ SendAwait

ProducerSpec == ProducerInit /\ [][ProducerNext]_vars

\* PutRecords returns, with a response or with an error
SendPutRecordsReturns ==
    \/ \E failed \in SUBSET (1..MaxSize) : SendPutRecords(failed)
    \/ SendPutRecordsFail

\* a call of the client returns and so does the throttle's Await
ProducerFairness ==
    /\ WF_vars(SendPutRecordsReturns)
    /\ WF_vars(SendAwait)

ProducerFairSpec == ProducerInit /\ [][ProducerNext]_vars /\ ProducerFairness

\* ---------------------------------------------------------------- claims
RECURSIVE Pow2(_)
RECURSIVE Pending(_)
RECURSIVE AcceptedFrom(_)

Range(seq) == {seq[i] : i \in 1..Len(seq)}

\* the readers launched for a shard
ReadersOf(id) == {r \in ReaderIds : readers[r].shard = id}

\* C1: no record of any shard is passed to the processor more than once,
\* whatever the interleaving of readers and monitor, across splits and merges.
C1_NoDuplication ==
    \A id \in ShardIds : \A i, j \in 1..Len(processed[id]) :
        i # j => processed[id][i] # processed[id][j]

\* after a merge, records of the child and of a parent have been processed
\* and every shard has had its reader
C1_Witness ==
    \E id \in 1..NumShards :
        /\ topology[id].AdjacentParentShardId # Nil
        /\ processed[id] # <<>>
        /\ \/ processed[topology[id].ParentShardId] # <<>>
           \/ processed[topology[id].AdjacentParentShardId] # <<>>
        /\ \A other \in 1..NumShards : ReadersOf(other) # {}

\* record k of the shard is one the consumer has to deliver: the shard is a
\* startup leaf whose LATEST iterator was opened before the record was
\* written, or the shard is a child of a shard that has a reader
Due(id, k) ==
    /\ id \in 1..NumShards
    /\ written[id] >= k
    /\ \/ \E r \in ReadersOf(id) :
             readers[r].by = "tail" /\ readers[r].opened # "none" /\ k > readers[r].start
       \/ ReadersOf(topology[id].ParentShardId) # {}
       \/ ReadersOf(topology[id].AdjacentParentShardId) # {}

\* C2: with no non-retryable error and fair scheduling, every record of a
\* startup leaf (from its LATEST iterator on) and every record of a child of
\* a shard being read is eventually passed to the processor.
C2_EventualDelivery ==
    \A id \in ShardIds : \A k \in 1..MaxRecs :
        Due(id, k) ~> (k \in Range(processed[id]))

\* C3: within one shard the processor sees the records in non-decreasing
\* sequence-number order, inside one batch and across the polls of the reader.
C3_InOrder ==
    \A id \in ShardIds : \A i, j \in 1..Len(processed[id]) :
        i < j => processed[id][i] <= processed[id][j]

\* a reader polled both records of its shard and the processor got them
C3_Witness ==
    \E r \in ReaderIds :
        /\ processed[readers[r].shard] = <<1, 2>>
        /\ readers[r].polled = <<1, 2>>
        /\ readers[r].start = 0

\* C4: there is never a second reader for a shard id that has or had one.
C4_OneReaderPerShard ==
    \A r, q \in ReaderIds : r # q => readers[r].shard # readers[q].shard

\* tail and the monitor have both launched, and every shard has its reader
C4_Witness ==
    /\ \E r \in ReaderIds : readers[r].by = "tail"
    /\ \E r \in ReaderIds : readers[r].by = "monitor" /\ readers[r].polled # <<>>
    /\ \A id \in 1..NumShards : ReadersOf(id) # {}
    /\ NumShards > 1

\* the reader has read its shard to the end and handed over all it polled
Drained(q) ==
    /\ readers[q].iterator = NilIterator
    /\ readers[q].batch = <<>>
    /\ readers[q].start + Len(readers[q].polled) = written[readers[q].shard]
    /\ Range(readers[q].polled) \subseteq Range(processed[readers[q].shard])

\* the reader of a shard has finished: drained and completion signal emitted
Completed(id) ==
    /\ ReadersOf(id) # {}
    /\ \A q \in ReadersOf(id) : readers[q].pc = "done" /\ Drained(q)

\* C5: a child's reader exists (so can open its iterator and poll) only
\* once the reader of its parent (ParentShardId) has handed every record it
\* read up to the end of the parent to the processor and has emitted its
\* completion signal; a finished reader makes no further processor call.
C5_ParentDrainedFirst ==
    \A r \in ReaderIds :
        LET parent == topology[readers[r].shard].ParentShardId IN
        /\ readers[r].by = "monitor" => parent # Nil /\ Completed(parent)
        /\ parent # Nil =>
              \A q \in ReadersOf(parent) : readers[q].pc = "done" /\ Drained(q)

\* a split child has polled, after a record of its parent was processed
C5_Witness ==
    \E r \in ReaderIds :
        LET parent == topology[readers[r].shard].ParentShardId IN
        /\ readers[r].by = "monitor"
        /\ topology[readers[r].shard].AdjacentParentShardId = Nil
        /\ readers[r].pc = "process"
        /\ processed[parent] # <<>>

\* C6: the reader of a merge child is launched only after the readers of
\* both of its parents have drained their shard and emitted their
\* completion signal.
C6_BothParentsDrained ==
    \A r \in ReaderIds :
        LET child == topology[readers[r].shard] IN
        (readers[r].by = "monitor" /\ child.AdjacentParentShardId # Nil) =>
            /\ Completed(child.ParentShardId)
            /\ Completed(child.AdjacentParentShardId)

\* the leaves of a snapshot, by definition: ids no listed shard names as parent
IsLeafOf(id, shards) ==
    /\ \E i \in 1..Len(shards) : shards[i].ShardId = id
    /\ \A i \in 1..Len(shards) :
          shards[i].ParentShardId # id /\ shards[i].AdjacentParentShardId # id

\* ids holds exactly the leaves of the snapshot, each once, in listing order
LeavesInOrder(ids, shards) ==
    /\ \A id \in ShardIds : id \in Range(ids) <=> IsLeafOf(id, shards)
    /\ \A i, j \in 1..Len(ids) : i < j =>
          \E m, n \in 1..Len(shards) :
              m < n /\ shards[m].ShardId = ids[i] /\ shards[n].ShardId = ids[j]

\* every listing of at most MaxSnapshot shards, ids in creation order, with
\* any parent references among them
Snapshots ==
    UNION {{[i \in 1..n |-> Shard(i, one[i], two[i])] :
                one \in [1..n -> 0..n], two \in [1..n -> 0..n]}
           : n \in 0..MaxSnapshot}

\* withNoChildren is right on every snapshot, whatever the parent references
WithNoChildrenOnSnapshots ==
    \A snap \in Snapshots : LeavesInOrder(withNoChildren(snap), snap)

\* C7: withNoChildren returns exactly the shard ids that no shard of the
\* snapshot names as ParentShardId or AdjacentParentShardId, each once and
\* in listing order; {A,B,C} gives {A,B,C}; {A, B(A), C(A)} gives {B,C}.
C7_LeafComputation ==
    /\ tailPc = "returned" => LeavesInOrder(leaves, tailShards)
    /\ WithNoChildrenOnSnapshots
    /\ withNoChildren(<<Shard(1, Nil, Nil), Shard(2, Nil, Nil), Shard(3, Nil, Nil)>>)
          = <<1, 2, 3>>
    /\ withNoChildren(<<Shard(1, Nil, Nil), Shard(2, 1, Nil), Shard(3, 1, Nil)>>)
          = <<2, 3>>

\* tail computed the leaves of a snapshot taken after a merge
C7_Witness ==
    /\ tailPc = "returned"
    /\ \E i \in 1..Len(tailShards) : tailShards[i].AdjacentParentShardId # Nil
    /\ leaves # <<>>

\* C8: readers launched by tail open their iterator with LATEST, readers
\* launched by the monitor with TRIM_HORIZON, and no reader polls before its
\* iterator has been opened.
C8_IteratorTypes ==
    \A r \in ReaderIds :
        /\ readers[r].by = "tail" => readers[r].iterType = LATEST
        /\ readers[r].by = "monitor" => readers[r].iterType = TRIM_HORIZON
        /\ readers[r].opened # "none" =>
              /\ readers[r].by = "tail" => readers[r].opened = LATEST
              /\ readers[r].by = "monitor" =>
                    readers[r].opened = TRIM_HORIZON /\ readers[r].start = 0
        /\ readers[r].pc # "init" => readers[r].opened # "none"
        /\ readers[r].opened = "none" =>
              readers[r].polled = <<>> /\ readers[r].iterator = NilIterator

\* a tail reader whose iterator skipped an older record, and a monitor
\* reader that polled its shard's first record
C8_Witness ==
    /\ \E r \in ReaderIds :
          readers[r].by = "tail" /\ readers[r].start > 0 /\ readers[r].pc = "done"
    /\ \E r \in ReaderIds : readers[r].by = "monitor" /\ readers[r].polled = <<1>>

\* the reader got a poll response with an absent next iterator
Exhausted(r) == readers[r].opened # "none" /\ readers[r].iterator = NilIterator

C9_State ==
    \A r \in ReaderIds :
        /\ Len(readers[r].signalled) <= 1
        /\ readers[r].signalled # <<>> =>
              readers[r].signalled = <<readers[r].shard>> /\ Exhausted(r)
        /\ readers[r].pc = "done" <=> readers[r].signalled # <<>>
        /\ Exhausted(r) => readers[r].pc \in {"process", "send", "done"}

C9_Step ==
    \A r \in ReaderIds : Exhausted(r) =>
        /\ readers'[r].polled = readers[r].polled
        /\ readers'[r].iterator = NilIterator
        /\ readers[r].pc = "process" => readers'[r].pc \in {"process", "send"}
        /\ readers[r].pc = "send" => readers'[r].pc \in {"send", "done"}
        /\ readers[r].pc = "done" => readers'[r] = readers[r]

\* C9: a reader whose poll response carries an absent next iterator goes on
\* to emit one completion signal carrying its own shard id, never more than
\* one, polls no more and never returns to polling.
C9_SingleCompletion == []C9_State /\ [][C9_Step]_vars

\* a reader has emitted its completion signal
C9_Witness ==
    \E r \in ReaderIds :
        readers[r].pc = "done" /\ readers[r].signalled = <<readers[r].shard>>

\* C10: a reader emits its completion signal only after every record it
\* polled, those of the final response included, went to the processor.
C10_CompletionAfterProcessing ==
    \A r \in ReaderIds : readers[r].pc \in {"send", "done"} =>
        /\ readers[r].batch = <<>>
        /\ Range(readers[r].polled) \subseteq Range(processed[readers[r].shard])
        /\ Len(processed[readers[r].shard]) >= Len(readers[r].polled)

\* Scenario 1: both records came in the final response, then the signal
C10_Witness ==
    \E r \in ReaderIds :
        /\ readers[r].pc = "send"
        /\ readers[r].polled = <<1, 2>>
        /\ processed[readers[r].shard] = <<1, 2>>

\* C11: a rate-limited poll does not end the reader, hands nothing to the
\* processor and sends no completion signal; the reader keeps its iterator,
\* waits, and its next step after the wait is another poll
C11_Step ==
    \A r \in ReaderIds :
        LET before == readers[r]
            after == readers'[r]
        IN  /\ (before.pc = "poll" /\ after.pc = "wait") =>
                  /\ processed' = processed
                  /\ after.polled = before.polled
                  /\ after.iterator = before.iterator
                  /\ after.signalled = before.signalled
                  /\ crashed' = crashed
            /\ before.pc = "wait" =>
                  /\ after.pc \in {"wait", "poll"}
                  /\ processed'[before.shard] = processed[before.shard]
                  /\ after.polled = before.polled
                  /\ after.iterator = before.iterator
                  /\ after.signalled = before.signalled

C11_ThrottleOnlyDelays == [][C11_Step]_vars

C11_Witness ==
    \E r \in ReaderIds :
        /\ readers[r].consecutive >= 3
        /\ readers[r].pc = "poll"

Pow2(n) == IF n <= 0 THEN 1 ELSE 2 * Pow2(n - 1)

Min(a, b) == IF a <= b THEN a ELSE b

\* C12: the wait after the k-th rate-limited poll in a row is
\* min(250 * 2^(k-1), 10000) ms, never more than 10 s, and after a successful
\* poll the next wait is 250 ms again
C12_Backoff ==
    \A r \in ReaderIds :
        /\ readers[r].waitTime <= 10000
        /\ readers[r].pc = "wait" =>
              readers[r].waitTime = Min(250 * Pow2(readers[r].consecutive - 1), 10000)
        /\ readers[r].consecutive = 0 => readers[r].waitTime = 250

C12_Witness ==
    \E r \in ReaderIds :
        /\ readers[r].pc = "wait"
        /\ readers[r].consecutive = 7
        /\ readers[r].waitTime = 10000

\* ------------------------------------------------------- producer claims
ValidationErrors ==
    {EmptyPartitionKey, PartitionKeyTooLong, InvalidUnicode, EmptyValue}

\* the rules a message breaks
Violated(key, value) ==
    {e \in ValidationErrors :
        \/ e = EmptyPartitionKey /\ Len(key) = 0
        \/ e = PartitionKeyTooLong /\ Len(key) > 256
        \/ e = InvalidUnicode /\ ~utf8ValidString(key)
        \/ e = EmptyValue /\ Len(value) = 0}

\* C13: a Put of a message whose key is 1 to 256 bytes of valid UTF-8 and
\* whose payload is not empty returns no validation error, whatever the
\* buffer holds
C13_ValidAccepted ==
    (/\ lastCall.op = "Put"
     /\ Len(lastCall.key) \in 1..256
     /\ utf8ValidString(lastCall.key)
     /\ Len(lastCall.value) > 0)
    => Range(lastCall.err) \cap ValidationErrors = {}

C13_Witness ==
    /\ lastCall.op = "Put"
    /\ Len(lastCall.key) = 256
    /\ Len(lastCall.value) > 0
    /\ lastCall.err = <<>>
    /\ Len(calls) = 2
    /\ calls[1].op = "Put"
    /\ p.SendSize = 2

\* C14: the error of a Put of a message that breaks one or more of the four
\* rules has one entry for every rule broken and none for any other rule
C14_EveryViolationNamed ==
    (lastCall.op = "Put" /\ Violated(lastCall.key, lastCall.value) # {}) =>
        /\ Range(lastCall.err) = Violated(lastCall.key, lastCall.value)
        /\ Len(lastCall.err) = Cardinality(Violated(lastCall.key, lastCall.value))

C14_Witness ==
    /\ lastCall.op = "Put"
    /\ Range(lastCall.err) = {PartitionKeyTooLong, InvalidUnicode, EmptyValue}

\* C15: a Put that fails validation changes neither the buffer nor the count
\* and calls no transport; the valid Put after it goes into the next free
\* slot
C15_Step ==
    /\ (lastCall' # lastCall /\ lastCall'.op = "Put" /\ Rejected(lastCall')) =>
          /\ p' = p
          /\ putRecords' = putRecords
          /\ sendPc' = "idle"
          /\ sendMessages' = sendMessages
    /\ (Rejected(lastCall) /\ lastCall'.op = "Put" /\ ~Rejected(lastCall')) =>
          /\ p'.current = p.current + 1
          /\ p'.messages =
                [p.messages EXCEPT ![p.current + 1] =
                    [PartitionKey |-> lastCall'.key, Value |-> lastCall'.value]]

C15_InvalidPutNoEffect == [][C15_Step]_vars

C15_Witness ==
    /\ lastCall.op = "Put"
    /\ lastCall.rejected
    /\ ~Rejected(lastCall)
    /\ p.current = 2
    /\ p.messages[2] = [PartitionKey |-> lastCall.key, Value |-> lastCall.value]
    /\ p.messages[1] # p.messages[2]

\* the request entry of a message put by a call
EntryOf(call) == [Data |-> call.value, PartitionKey |-> call.key]

\* every PutRecords call so far was answered without error or failed entry
AllAccepted ==
    \A i \in 1..Len(putRecords) :
        ~putRecords[i].err /\ putRecords[i].failed = {}

\* C16: with SendSize = N, N valid Puts on a new producer and a transport
\* that accepts everything, there is exactly one submission, of those N
\* messages in Put order, and the count is 0 when the N-th Put has returned
C16_SendAtSendSize ==
    (/\ Len(calls) = p.SendSize
     /\ \A i \in 1..Len(calls) : calls[i].op = "Put"
     /\ AllAccepted
     /\ sendPc = "idle")
    => /\ Len(putRecords) = 1
       /\ putRecords[1].records = [i \in 1..Len(calls) |-> EntryOf(calls[i])]
       /\ p.current = 0

C16_Witness ==
    /\ p.SendSize = 2
    /\ Len(calls) = 2
    /\ calls[1].op = "Put" /\ calls[2].op = "Put"
    /\ calls[1] # calls[2]
    /\ AllAccepted
    /\ sendPc = "idle"
    /\ Len(putRecords) = 1

\* the messages put and not yet sent after the first n calls: a Flush sends,
\* and so does the Put that fills the buffer
Pending(n) ==
    IF n = 0 THEN <<>>
    ELSE IF calls[n].op = "Flush" THEN <<>>
    ELSE IF Len(Pending(n - 1)) + 1 = p.SendSize THEN <<>>
    ELSE Append(Pending(n - 1), calls[n])

\* C17: while fewer than SendSize valid messages were put since the last
\* send, a Put calls no transport and returns no error, and the count is the
\* number of valid Puts since the last send
C17_State ==
    sendPc = "idle" => p.current = Len(Pending(Len(calls)))

C17_Step ==
    (/\ Len(calls') = Len(calls) + 1
     /\ calls'[Len(calls')].op = "Put"
     /\ Len(Pending(Len(calls))) + 1 < p.SendSize)
    => /\ putRecords' = putRecords
       /\ sendPc' = "idle"
       /\ lastCall'.err = <<>>
       /\ p'.current = Len(Pending(Len(calls))) + 1

C17_BufferedBelowSendSize == []C17_State /\ [][C17_Step]_vars

C17_Witness ==
    /\ Len(putRecords) >= 1
    /\ lastCall.op = "Put"
    /\ lastCall.err = <<>>
    /\ sendPc = "idle"
    /\ p.current = 1

\* the entries of seq at the positions in at, in the order of seq
Pick(seq, at) ==
    [j \in 1..Cardinality(at \cap (1..Len(seq))) |->
        seq[CHOOSE k \in at \cap (1..Len(seq)) :
                Cardinality({l \in at \cap (1..Len(seq)) : l <= k}) = j]]

\* C18: after a submission of N entries answered with K failed entries,
\* 0 < K < N, the next submission holds exactly the K entries that carried an
\* error code, in their order, and none of the others
C18_RetryOnlyFailed ==
    \A i \in 1..(Len(putRecords) - 1) :
        (/\ ~putRecords[i].err
         /\ Cardinality(putRecords[i].failed) > 0
         /\ Cardinality(putRecords[i].failed) < Len(putRecords[i].records))
        => putRecords[i + 1].records =
              Pick(putRecords[i].records, putRecords[i].failed)

C18_Witness ==
    /\ Len(putRecords) = 2
    /\ Len(putRecords[1].records) = 2
    /\ putRecords[1].records[1] # putRecords[1].records[2]
    /\ putRecords[1].failed = {1}
    /\ Len(putRecords[2].records) = 1

\* the number of times x occurs in seq
Count(seq, x) == Cardinality({i \in 1..Len(seq) : seq[i] = x})

\* the entries the transport accepted in the PutRecords calls from the n-th on
AcceptedFrom(n) ==
    IF n > Len(putRecords) THEN <<>>
    ELSE (IF putRecords[n].err THEN <<>>
          ELSE Pick(putRecords[n].records,
                    (1..Len(putRecords[n].records)) \ putRecords[n].failed))
         \o AcceptedFrom(n + 1)

\* the entries buffered when the last of the calls began its send
BufferedAtSend ==
    LET before == Pending(Len(calls) - 1)
        all == IF calls[Len(calls)].op = "Put"
               THEN Append(before, calls[Len(calls)]) ELSE before
    IN  [i \in 1..Len(all) |-> EntryOf(all[i])]

\* the last call ran a send and the send returned nil
SendReturnedNil ==
    /\ sendPc = "idle"
    /\ calls # <<>>
    /\ lastCall.op = calls[Len(calls)].op
    /\ lastCall.key = calls[Len(calls)].key
    /\ lastCall.value = calls[Len(calls)].value
    /\ lastCall.err = <<>>
    /\ lastCall.first <= Len(putRecords)

\* C19: when the send of a Put or a Flush returns without error, the
\* transport has accepted every message that was buffered when the send
\* began exactly once, whatever entries failed on the way
C19_AcceptedExactlyOnce ==
    SendReturnedNil =>
        \A x \in Range(BufferedAtSend) \cup Range(AcceptedFrom(lastCall.first)) :
            Count(AcceptedFrom(lastCall.first), x) = Count(BufferedAtSend, x)

C19_Witness ==
    /\ SendReturnedNil
    /\ Len(BufferedAtSend) = 2
    /\ BufferedAtSend[1] # BufferedAtSend[2]
    /\ Len(putRecords) = 3
    /\ putRecords[1].failed = {2}
    /\ putRecords[2].failed = {1}

\* C20: send resubmits after every response with failed entries, however
\* many there were before; it returns nil exactly when a response reports
\* no failed entry; and once the transport accepts what it is sent, send
\* returns
C20_Step ==
    /\ sendPc = "await" => sendPc' \in {"await", "call"}
    /\ (/\ Len(putRecords') = Len(putRecords) + 1
        /\ ~putRecords'[Len(putRecords')].err
        /\ putRecords'[Len(putRecords')].failed # {})
       => sendPc' = "await" /\ lastCall' = lastCall
    /\ (sendPc # "idle" /\ sendPc' = "idle") =>
          (lastCall'.err = <<>> <=>
              /\ ~putRecords'[Len(putRecords')].err
              /\ putRecords'[Len(putRecords')].failed = {})

C20_RetryUntilAccepted ==
    [][C20_Step]_vars /\ ((sendPc # "idle") ~> (sendPc = "idle"))

C20_Witness ==
    /\ sendPc = "idle"
    /\ lastCall.err = <<>>
    /\ lastCall.first = 1
    /\ Len(putRecords) = 3
    /\ putRecords[1].failed # {}
    /\ putRecords[2].failed # {}
    /\ putRecords[3].failed = {}
    /\ ~putRecords[3].err

\* the PutRecords calls from the n-th on that were answered with failed entries
FailingFrom(n) ==
    Cardinality({i \in n..Len(putRecords) :
                    ~putRecords[i].err /\ putRecords[i].failed # {}})

\* the last call ran a send, which may still be running
SendRan == sendPc # "idle" \/ lastCall.first <= Len(putRecords)

\* C21: within one send Await is called once after every attempt answered
\* with failed entries and never after one without: the waits are as many as
\* the failing attempts, the wait of the last one being still to come while
\* send is about to call Await
C21_WaitPerFailingAttempt ==
    SendRan =>
        Len(waits) + (IF sendPc = "await" THEN 1 ELSE 0)
            = FailingFrom(lastCall.first)

C21_Witness ==
    /\ sendPc = "idle"
    /\ lastCall.first = 1
    /\ Len(putRecords) = 3
    /\ putRecords[3].failed = {}
    /\ ~putRecords[3].err
    /\ Len(waits) = 2

\* C22: in a producer built by New the waits of one send are 500 ms, then
\* twice the wait before, up to 10000 ms
C22_ExponentialBackoff ==
    \A k \in 1..Len(waits) : waits[k] = Min(500 * Pow2(k - 1), 10000)

\* the last call is a Flush
LastIsFlush ==
    /\ calls # <<>>
    /\ calls[Len(calls)].op = "Flush"
    /\ lastCall.op = "Flush"

\* C23: a Flush of a producer that holds no message calls no transport and
\* returns no error; a Flush of one that holds messages submits exactly
\* those, however many they are
C23_FlushOnlyWhatIsBuffered ==
    LastIsFlush =>
        IF Pending(Len(calls) - 1) = <<>>
        THEN /\ lastCall.first > Len(putRecords)
             /\ lastCall.err = <<>>
        ELSE lastCall.first <= Len(putRecords) =>
                putRecords[lastCall.first].records =
                    [i \in 1..Len(Pending(Len(calls) - 1)) |->
                        EntryOf(Pending(Len(calls) - 1)[i])]

\* C24: a PutRecords that fails as a whole is not tried again: send makes no
\* further call, the caller of Put or Flush gets that error, and the buffer
\* is empty
C24_Step ==
    (/\ Len(putRecords') = Len(putRecords) + 1
     /\ putRecords'[Len(putRecords')].err)
    => /\ sendPc' = "idle"
       /\ lastCall'.err = <<TransportError>>
       /\ lastCall'.op = lastCall.op
       /\ p'.current = 0

C24_State ==
    (/\ sendPc = "idle"
     /\ lastCall.first <= Len(putRecords)
     /\ \E i \in lastCall.first..Len(putRecords) : putRecords[i].err)
    => /\ putRecords[Len(putRecords)].err
       /\ lastCall.err = <<TransportError>>

C24_TransportErrorNotRetried == []C24_State /\ [][C24_Step]_vars

C24_Witness ==
    /\ sendPc = "idle"
    /\ lastCall.op = "Put"
    /\ lastCall.err = <<TransportError>>
    /\ p.SendSize = 2
    /\ p.current = 0
    /\ Len(putRecords) = 1
    /\ putRecords[1].err
    /\ Len(putRecords[1].records) = 2

\* C26: when a send that called the transport returns, with nil after any
\* number of attempts or with the error of its first or of a later attempt,
\* the count is 0 and no slot of the buffer holds a message
C26_ResetOnReturn ==
    (sendPc = "idle" /\ lastCall.first <= Len(putRecords)) =>
        /\ p.current = 0
        /\ \A i \in 1..Len(p.messages) : p.messages[i] = NilMessage

C26_Witness ==
    /\ sendPc = "idle"
    /\ lastCall.first = 1
    /\ Len(putRecords) = 2
    /\ putRecords[1].failed # {}
    /\ putRecords[2].err
    /\ p.SendSize = 2
    /\ p.current = 0

\* C35: for SendSize >= 1 the buffer has SendSize slots and the count never
\* passes SendSize; whenever Put or Flush has returned the count is below
\* SendSize, so the next Put writes inside the buffer; a count of SendSize
\* is seen only inside the send it triggered, and the return of a send
\* leaves the count at 0.
C35_State ==
    /\ p.SendSize >= 1
    /\ Len(p.messages) = p.SendSize
    /\ p.current \in 0..p.SendSize
    /\ sendPc = "idle" => p.current < Len(p.messages)
    /\ p.current = p.SendSize =>
          sendPc # "idle" /\ lastCall.op = "Put"

C35_Step ==
    /\ (sendPc # "idle" /\ sendPc' = "idle") => p'.current = 0
    /\ (sendPc = "idle" /\ p'.current = p.SendSize) => sendPc' = "call"

C35_BufferBound == []C35_State /\ [][C35_Step]_vars

\* the second Put has filled a buffer of two slots and its send is about
\* to call the client
C35_Witness ==
    /\ p.SendSize = 2
    /\ p.current = 2
    /\ sendPc = "call"
    /\ Len(calls) = 2
    /\ putRecords = <<>>

\* the last call ran a send that returned the error of a retry submission
C37_RetryFailed ==
    /\ sendPc = "idle"
    /\ calls # <<>>
    /\ lastCall.err = <<TransportError>>
    /\ lastCall.first < Len(putRecords)

\* C37: when PutRecords fails as a whole on a retry submission, that call
\* is the last of the send and its only failed call, the caller gets the
\* error, and the buffer is reset; every message buffered when the send
\* began was either accepted exactly once by an earlier attempt or was in
\* the failed submission and accepted by none, and no slot holds it any more.
C37_TransportErrorOnRetry ==
    C37_RetryFailed =>
        LET last == putRecords[Len(putRecords)]
        IN  /\ last.err
            /\ \A i \in lastCall.first..(Len(putRecords) - 1) :
                  ~putRecords[i].err /\ putRecords[i].failed # {}
            /\ p.current = 0
            /\ \A i \in 1..Len(p.messages) : p.messages[i] = NilMessage
            /\ last.records # <<>>
            /\ \A x \in Range(BufferedAtSend)
                       \cup Range(AcceptedFrom(lastCall.first))
                       \cup Range(last.records) :
                  Count(AcceptedFrom(lastCall.first), x) + Count(last.records, x)
                      = Count(BufferedAtSend, x)

\* of two different messages the first attempt got one through, and the
\* retry of the other failed as a whole
C37_Witness ==
    /\ C37_RetryFailed
    /\ lastCall.first = 1
    /\ Len(putRecords) = 2
    /\ Len(putRecords[1].records) = 2
    /\ putRecords[1].records[1] # putRecords[1].records[2]
    /\ putRecords[1].failed = {2}
    /\ putRecords[2].err

\* a is b with some entries left out
RECURSIVE C38_SubSeq(_, _)
C38_SubSeq(a, b) ==
    IF a = <<>> THEN TRUE
    ELSE IF b = <<>> THEN FALSE
    ELSE IF Head(a) = Head(b) THEN C38_SubSeq(Tail(a), Tail(b))
    ELSE C38_SubSeq(a, Tail(b))

\* the request entries of the messages put by the calls made so far
C38_PutEntries ==
    {EntryOf(calls[i]) : i \in {j \in 1..Len(calls) : calls[j].op = "Put"}}

\* C38: within one send every retry submission is a sub-sequence of the
\* submission before it, and every submission holds only messages that
\* were Put, never an unfilled slot of the buffer, and no more of them than
\* the buffer has slots.
C38_RetriesShrink ==
    /\ \A i \in 1..(Len(putRecords) - 1) :
          (~putRecords[i].err /\ putRecords[i].failed # {}) =>
              /\ C38_SubSeq(putRecords[i + 1].records, putRecords[i].records)
              /\ Len(putRecords[i + 1].records) <= Len(putRecords[i].records)
    /\ \A i \in 1..Len(putRecords) :
          /\ Len(putRecords[i].records) <= p.SendSize
          /\ \A k \in 1..Len(putRecords[i].records) :
                /\ putRecords[i].records[k] \in C38_PutEntries
                /\ putRecords[i].records[k] # putRecordsInput(<<NilMessage>>)[1]
    /\ sendPc # "idle" =>
          /\ Len(sendMessages) <= p.current
          /\ \A k \in 1..Len(sendMessages) : sendMessages[k] # NilMessage

\* a Flush of a half-filled buffer of two slots submitted the one message
\* put, which failed, and submitted it again
C38_Witness ==
    /\ p.SendSize = 2
    /\ Len(calls) = 2
    /\ calls[2].op = "Flush"
    /\ Len(putRecords) = 2
    /\ putRecords[1].failed = {1}
    /\ Len(putRecords[1].records) = 1
    /\ putRecords[2].records = putRecords[1].records

\* ----------------------------------------------- BufferedProducer claims
\* C25: when PutRecords fails as a whole with M messages buffered, send
\* returns the transport error and exactly M FailedPuts, one for each
\* buffered message in buffer order, each without error code and message
C25_AllFailedOnTransportError ==
    bufReturned.err = TransportError =>
        LET request == bufPutRecords[Len(bufPutRecords)].records
        IN  /\ bufPutRecords[Len(bufPutRecords)].err
            /\ Len(request) > 0
            /\ Len(bufReturned.failures) = Len(request)
            /\ \A i \in 1..Len(request) :
                  /\ bufReturned.failures[i].Message = bufReturned.had[i]
                  /\ bufReturned.had[i].PartitionKey = request[i].PartitionKey
                  /\ bufReturned.had[i].Value = request[i].Data
                  /\ bufReturned.failures[i].ErrorCode = NilString
                  /\ bufReturned.failures[i].ErrorMessage = NilString

\* ------------------------------------------------- consumer failure claims
\* C27: when the initial shard listing fails, tail returns the error and
\* starts nothing: the monitor is not running, there is no reader, no
\* iterator was opened and the processor was never invoked.
C27_FailedTailStartsNothing ==
    tailPc = "failed" =>
        /\ monPc = "off"
        /\ readers = <<>>
        /\ leaves = <<>>
        /\ \A id \in ShardIds : processed[id] = <<>>
        /\ ~crashed

\* the listing failed on a stream that had resharded and held records
C27_Witness ==
    /\ tailPc = "failed"
    /\ NumShards = MaxShards
    /\ \E id \in 1..NumShards : written[id] > 0

\* the step of reader r, if it is one
C28_ReaderStep(r) ==
    /\ r <= Len(readers')
    /\ readers'[r] # readers[r]

\* C28: a non-retryable failure of GetShardIterator or GetRecords is fatal
\* and not swallowed: the failing step polls nothing, invokes no processor
\* and signals no completion, nothing runs after it, and a reader leaves
\* init only with an open iterator and leaves a poll only with the records
\* it got or to wait out a throttle.
C28_Step ==
    /\ ~crashed
    /\ crashed' =>
          /\ readers' = readers
          /\ processed' = processed
          /\ monPc' = monPc
    /\ \A r \in 1..Len(readers) :
          /\ (readers[r].pc = "init" /\ C28_ReaderStep(r)) =>
                readers'[r].pc = "poll" /\ readers'[r].opened # "none"
          /\ (readers[r].pc = "poll" /\ C28_ReaderStep(r)) =>
                readers'[r].pc \in {"process", "wait"}

C28_FailureIsFatal == [][C28_Step]_vars

\* the consumer died while its one live reader, which had delivered a
\* record, was polling, the monitor waiting for a signal
C28_Witness ==
    /\ crashed
    /\ tailPc = "returned"
    /\ monPc = "recv"
    /\ \E r \in 1..Len(readers) :
          /\ readers[r].pc = "poll"
          /\ processed[readers[r].shard] # <<>>
          /\ \A q \in 1..Len(readers) :
                q # r => readers[q].pc \notin {"init", "poll"}


\* a listing holds the shards of the stream in the backend's order, each once
C29_ListedOnce(listing) ==
    /\ Len(listing) <= NumShards
    /\ listing = SubSeq(topology, 1, Len(listing))

\* C29: listShards pages through the topology with a last-seen-shard cursor:
\* what tail and the monitor have gathered from it, and what it returns to
\* them, holds the shards of the stream in order, every shard at most once.
C29_ListShardsPaginates ==
    /\ C29_ListedOnce(tailShards)
    /\ C29_ListedOnce(monShards)


\* a reader of shard id is blocked on its completion send
C30_Signalling(id) ==
    \E r \in ReaderIds : readers[r].shard = id /\ readers[r].pc = "send"

\* the monitor has taken the signal of shard id, launched exactly one
\* TRIM_HORIZON reader for every shard whose ParentShardId is id, and is
\* back at the receive
C30_Handled(id) ==
    /\ monShard = id
    /\ monPc = "recv"
    /\ \A j \in 1..NumShards :
          topology[j].ParentShardId = id =>
              Cardinality({r \in ReaderIds :
                              /\ readers[r].shard = j
                              /\ readers[r].by = "monitor"
                              /\ readers[r].iterType = TRIM_HORIZON}) = 1

\* C30: with no non-retryable error and fair scheduling, every completion
\* signal is eventually received by the monitor, which re-lists the shards,
\* launches exactly one TRIM_HORIZON reader per shard whose ParentShardId is
\* the completed id, and waits for the next signal.
C30_SignalsHandled ==
    \A id \in ShardIds : C30_Signalling(id) ~> C30_Handled(id)


\* --------------------------------------------------- fire-and-forget tail
\* C31: once the listing has succeeded tail returns nil, whatever the readers
\* it has started do: it waits for no reader and not for the monitor, also
\* when a processor call never returns.
C31_TailReturns == (tailPc = "launch") ~> (tailPc = "returned")

\* tail has returned while a reader it started sits in its first processor
\* call and has delivered nothing, and another has not opened its iterator
C31_Witness ==
    /\ tailPc = "returned"
    /\ \E r \in ReaderIds :
          /\ readers[r].pc = "process"
          /\ readers[r].batch # <<>>
          /\ processed[readers[r].shard] = <<>>
    /\ \E r \in ReaderIds : readers[r].pc = "init"


\* ------------------------------------------------- processor invocations
\* the readers of shard id that are inside a processor call
C32_InProcessor(id) ==
    {r \in ReaderIds : readers[r].shard = id /\ readers[r].pc = "process"}

\* at most one processor call per shard is running
C32_State == \A id \in ShardIds : Cardinality(C32_InProcessor(id)) <= 1

\* a reader inside a processor call does nothing but return from it: it
\* polls nothing, and the call delivers the batch it was given
C32_Step ==
    \A r \in ReaderIds :
        (readers[r].pc = "process" /\ readers'[r] # readers[r]) =>
            /\ readers'[r].pc \in {"poll", "send"}
            /\ readers'[r].polled = readers[r].polled
            /\ readers'[r].iterator = readers[r].iterator
            /\ processed'[readers[r].shard] =
                  processed[readers[r].shard] \o readers[r].batch

\* C32: the processor calls for one shard are strictly sequential, each
\* returning before the next poll of that shard; calls for different shards
\* may run at the same time.
C32_SequentialPerShard == []C32_State /\ [][C32_Step]_vars

\* two readers of different shards are inside the processor at once, one of
\* them for the second time
C32_Witness ==
    \E r, q \in ReaderIds :
        /\ readers[r].shard # readers[q].shard
        /\ readers[r].pc = "process"
        /\ readers[q].pc = "process"
        /\ readers[q].batch # <<>>
        /\ Len(readers[q].polled) > Len(readers[q].batch)


\* ---------------------------------------------- listing failure, monitor
\* C33: a failed listing inside the monitor loop is fatal and not ignored:
\* the monitor leaves listShards only with a listing, towards the launch of
\* the children; the failing step launches nothing, and after it no reader
\* is launched and no signal is received.
C33_Step ==
    /\ ~crashed
    /\ (monPc = "list" /\ monPc' # "list") => (monPc' = "launch" /\ ~crashed')
    /\ (monPc = "list" /\ crashed') =>
          /\ readers' = readers
          /\ monShards' = monShards
          /\ monShard' = monShard
    /\ Len(readers') > Len(readers) => ~crashed'

C33_MonitorListFailFatal == [][C33_Step]_vars

\* the monitor died in the listing that followed one signal while another
\* reader is blocked on its completion send, no reader being in a call
C33_Witness ==
    /\ crashed
    /\ monPc = "list"
    /\ \E r \in ReaderIds : readers[r].pc = "send"
    /\ \A r \in ReaderIds : readers[r].pc \in {"send", "done"}


\* ------------------------------------------------- children of a merge
\* the shards made by a merge
C34_Merged == {j \in 1..NumShards : topology[j].AdjacentParentShardId # Nil}

\* the number of readers of shard j among rs
C34_Readers(rs, j) == Len(SelectSeq(rs, LAMBDA s : s.shard = j))

\* the monitor's launch after the completion of one parent of a merge
C34_Step ==
    \A j \in C34_Merged :
        (monPc = "launch" /\ monPc' = "recv") =>
            /\ monShard = topology[j].ParentShardId =>
                  /\ C34_Readers(readers, j) = 0
                  /\ C34_Readers(readers', j) = 1
            /\ monShard # topology[j].ParentShardId =>
                  C34_Readers(readers', j) = C34_Readers(readers, j)

\* a merged shard has at most one reader and none of its records is
\* delivered twice
C34_State ==
    \A j \in C34_Merged :
        /\ C34_Readers(readers, j) <= 1
        /\ \A a, b \in 1..Len(processed[j]) :
              a # b => processed[j][a] # processed[j][b]

\* C34: children are matched on ParentShardId only: for a shard C merged
\* from A (ParentShardId) and B (AdjacentParentShardId), the completion of A
\* launches one reader of C and the completion of B launches none, whichever
\* comes first, so C has at most one reader and its records are delivered
\* once.
C34_ParentOneOnly == []C34_State /\ [][C34_Step]_vars

\* both parents have completed and their signals were served, and the one
\* reader of C has delivered a record
C34_Witness ==
    \E j \in C34_Merged :
        /\ monPc = "recv"
        /\ \E r \in ReaderIds :
              /\ readers[r].shard = topology[j].AdjacentParentShardId
              /\ readers[r].pc = "done"
        /\ \E r \in ReaderIds :
              /\ readers[r].shard = topology[j].ParentShardId
              /\ readers[r].pc = "done"
        /\ C34_Readers(readers, j) = 1
        /\ processed[j] # <<>>


\* ------------------------------------------------- iterator and throttle
\* C36: a throttled poll leaves the iterator where it was: at every point of
\* the loop, throttled or not, the iterator of a reader stands right after
\* the last record the reader polled, so the poll after a backoff wait asks
\* for the record the throttled poll asked for, and what a reader polled is
\* the run of records from its start, none skipped and none twice.
C36_IteratorKept ==
    \A r \in ReaderIds :
        /\ readers[r].polled =
              [i \in 1..Len(readers[r].polled) |-> readers[r].start + i]
        /\ readers[r].iterator # NilIterator =>
              /\ readers[r].iterator.shard = readers[r].shard
              /\ readers[r].iterator.pos =
                    readers[r].start + Len(readers[r].polled)
        /\ readers[r].pc = "wait" => readers[r].iterator # NilIterator

\* the only reader was throttled once, waited, and has polled two records
\* in two polls, the second batch being with the processor
C36_Witness ==
    /\ Len(readers) = 1
    /\ throttles = 1
    /\ readers[1].pc = "process"
    /\ readers[1].waitTime = BaseWaitTime
    /\ Len(readers[1].polled) = 2
    /\ Len(readers[1].batch) = 1
    /\ Len(processed[readers[1].shard]) = 1


\* ------------------------------------------------- which shards are read
\* the startup snapshot names shard id as a parent
C39_ClosedAtStartup(id) ==
    \E i \in 1..Len(tailShards) :
        \/ tailShards[i].ParentShardId = id
        \/ tailShards[i].AdjacentParentShardId = id

\* shard id is listed in the startup snapshot and has no children there
C39_StartupLeaf(id) ==
    /\ \E i \in 1..Len(tailShards) : tailShards[i].ShardId = id
    /\ ~C39_ClosedAtStartup(id)

\* shard id is a startup leaf, or its ParentShardId names a shard reached
\* in this way whose reader has completed
RECURSIVE C39_Reached(_)
C39_Reached(id) ==
    \/ C39_StartupLeaf(id)
    \/ /\ topology[id].ParentShardId # Nil
       /\ \E q \in ReaderIds :
             /\ readers[q].shard = topology[id].ParentShardId
             /\ readers[q].pc = "done"
       /\ C39_Reached(topology[id].ParentShardId)

\* C39: every reader is on a shard that is a leaf of the startup snapshot
\* or is reached from one through ParentShardId links of completed shards;
\* tail starts readers on startup leaves only, and a shard that has
\* children in the startup snapshot has no reader, so it is never opened or
\* polled.
C39_OnlyReachedShardsRead ==
    /\ \A r \in ReaderIds :
          /\ readers[r].shard \in 1..NumShards
          /\ C39_Reached(readers[r].shard)
          /\ readers[r].by = "tail" => C39_StartupLeaf(readers[r].shard)
    /\ \A id \in 1..NumShards :
          (tailPc = "returned" /\ C39_ClosedAtStartup(id)) =>
              /\ \A r \in ReaderIds : readers[r].shard # id
              /\ processed[id] = <<>>

\* the stream was split before startup and the closed parent held a
\* record: its two children are read from startup, it is not
C39_Witness ==
    /\ tailPc = "returned"
    /\ C39_ClosedAtStartup(1)
    /\ written[1] > 0
    /\ Len(readers) = 2
    /\ \E r \in ReaderIds : readers[r].polled # <<>>


\* ------------------------------------------ one invocation per response
\* what the processor got for the shard of a reader, with the batch the
\* reader still holds, is what the reader polled; outside the processor
\* call the reader holds no batch
C40_State ==
    \A r \in ReaderIds :
        /\ processed[readers[r].shard] \o readers[r].batch = readers[r].polled
        /\ readers[r].pc # "process" => readers[r].batch = <<>>

\* the step of a reader at the poll is a throttled poll or a response that
\* takes it to the processor with the records of the response, with or
\* without records and with or without a next iterator; its step at the
\* processor is one call, with that batch, after which it polls or
\* completes; the processor is called by no other step
C40_Step ==
    /\ \A r \in ReaderIds :
          /\ (readers[r].pc = "poll" /\ readers'[r] # readers[r]
                  /\ readers'[r].pc # "wait") =>
                /\ readers'[r].pc = "process"
                /\ readers'[r].polled = readers[r].polled \o readers'[r].batch
                /\ processed' = processed
          /\ (readers[r].pc = "process" /\ readers'[r] # readers[r]) =>
                /\ readers'[r].pc \in {"poll", "send"}
                /\ readers'[r].pc = "send" <=> readers[r].iterator = NilIterator
                /\ readers'[r].batch = <<>>
                /\ processed'[readers[r].shard] =
                      processed[readers[r].shard] \o readers[r].batch
    /\ \A id \in ShardIds :
          processed'[id] # processed[id] =>
              \E r \in ReaderIds :
                  /\ readers[r].shard = id
                  /\ readers[r].pc = "process"
                  /\ readers'[r].pc # "process"

\* C40: the processor is called once for every successful poll response,
\* with exactly its records, also for a response without records and for
\* the last response of a closed shard; successful polls and processor
\* calls of a reader alternate.
C40_OncePerResponse == []C40_State /\ [][C40_Step]_vars

\* a reader that has delivered a record is about to call the processor with
\* the last response of its shard, which carries no record and no iterator
C40_Witness ==
    \E r \in ReaderIds :
        /\ readers[r].pc = "process"
        /\ readers[r].batch = <<>>
        /\ readers[r].iterator = NilIterator
        /\ processed[readers[r].shard] # <<>>


C25_Witness ==
    /\ bufReturned.err = TransportError
    /\ Len(bufReturned.failures) = 2
    /\ bufReturned.failures[1].Message # bufReturned.failures[2].Message
    /\ buffered.current = 0

TypeOK ==
    /\ NumShards \in 1..MaxShards
    /\ \A r \in ReaderIds : readers[r].pc \in {"init", "poll", "wait", "process", "send", "done"}

====
